---------------------------- MODULE Spec2Model ----------------------------
(***************************************************************************)
(* A model of the LS-8 style emulator of cpu.py (class CPU): its memory,   *)
(* registers, flags, program loader, instruction decoder, operation        *)
(* handlers, interrupt poll and execution loop.                            *)
(*                                                                         *)
(* Python values.  A memory cell, a register, the program counter and the  *)
(* flags each hold either a Python str or a Python int.  Every str the     *)
(* emulator stores is the text f'{x:08b}' of some integer x (load, the ALU *)
(* handlers, the poll and INT all format with :08b, and the literals       *)
(* '00000000', '00000001', '00000010' are of that form), so a str cell is  *)
(* modelled as Byte(x) and an int cell as Raw(x).  int(cell, 2) is x for   *)
(* a Byte(x) cell and raises TypeError on a Raw cell.                      *)
(* A Python exception ends run(); the model records its class in error.    *)
(***************************************************************************)
EXTENDS Integers, Sequences, FiniteSets, TLC

\* ------------------------------------------------------------------ cells

Byte(x) == [tag |-> "Byte", val |-> x]

Raw(x) == [tag |-> "Raw", val |-> x]

IsByte(c) == c.tag = "Byte"

IsRaw(c) == c.tag = "Raw"

\* ------------------------------------------------- Python integer operators

\* a & b on unbounded two's-complement integers.  For a mask of low bits
\* the result is a modulo 2^k, for a single bit that bit of a.
RECURSIVE BitAnd(_, _)
BitAnd(a, b) ==
    IF a = 0 \/ b = 0 THEN 0
    ELSE IF a = -1 THEN b
    ELSE IF b = -1 THEN a
    ELSE IF b \in {1, 3, 15, 255} THEN a % (b + 1)
    ELSE IF b \in {2, 4, 8, 16, 32, 64, 128} THEN ((a \div b) % 2) * b
    ELSE (IF a % 2 = 1 /\ b % 2 = 1 THEN 1 ELSE 0) + 2 * BitAnd(a \div 2, b \div 2)

\* a | b
RECURSIVE BitOr(_, _)
BitOr(a, b) ==
    IF a = 0 THEN b
    ELSE IF b = 0 THEN a
    ELSE IF a = -1 \/ b = -1 THEN -1
    ELSE (IF a % 2 = 1 \/ b % 2 = 1 THEN 1 ELSE 0) + 2 * BitOr(a \div 2, b \div 2)

\* a ^ b
RECURSIVE BitXor(_, _)
BitXor(a, b) ==
    IF a = 0 THEN b
    ELSE IF b = 0 THEN a
    ELSE IF a = -1 THEN (-b) - 1
    ELSE IF b = -1 THEN (-a) - 1
    ELSE (IF (a % 2) # (b % 2) THEN 1 ELSE 0) + 2 * BitXor(a \div 2, b \div 2)

\* a >> b for b >= 0 (floor division by 2^b).
RECURSIVE ShiftRight(_, _)
ShiftRight(a, b) ==
    IF b = 0 \/ a = 0 \/ a = -1 THEN a
    ELSE IF b \in 1..8 THEN a \div (2 ^ b)
    ELSE ShiftRight(a \div 2, b - 1)

\* (a << b) & 0xff for b >= 0, masked after every doubling so that the
\* intermediate value stays small; the result is that of the one final mask.
RECURSIVE ShiftLeftMasked(_, _)
ShiftLeftMasked(a, b) ==
    IF b = 0 THEN BitAnd(a, 255)
    ELSE IF BitAnd(a, 255) = 0 THEN 0
    ELSE ShiftLeftMasked(BitAnd(a, 255) * 2, b - 1)

\* (a * b) & 0xff, multiplying the low bytes so that the product stays small;
\* the low byte of a product depends on the low bytes of its factors only.
MulMasked(a, b) == BitAnd(BitAnd(a, 255) * BitAnd(b, 255), 255)

\* a % b with Python's sign rule (the result has the sign of b), b # 0.
PyMod(a, b) == IF b > 0 THEN a % b ELSE -((-a) % (-b))

\* ------------------------------------------------------------------- text
\* Text is a sequence of code points.

RECURSIVE Digits(_, _)
Digits(n, base) ==
    IF n < base THEN <<48 + n>>
    ELSE Digits(n \div base, base) \o <<48 + (n % base)>>

RECURSIVE ZeroPad(_, _)
ZeroPad(t, width) == IF Len(t) >= width THEN t ELSE ZeroPad(<<48>> \o t, width)

\* f'{x:08b}': sign-aware zero padding to a total width of 8.
Bin08Text(x) ==
    IF x < 0 THEN <<45>> \o ZeroPad(Digits(-x, 2), 7)
    ELSE ZeroPad(Digits(x, 2), 8)

\* str(x) as print() renders an int.
DecText(x) == IF x < 0 THEN <<45>> \o Digits(-x, 10) ELSE Digits(x, 10)


\* ------------------------------------------------------- CPU.__init__ names

\* self.IS, self.IM, self.SP: register numbers; self.KEY: the last-key address;
\* self.arg_1, self.arg_2: the memory cells that hold the decoded operands.
IS == 6

IM == 5

SP == 7

KEY == 244

arg_1 == 255

arg_2 == 254

RamSize == 256

NumRegs == 8

\* The state of a CPU object as a record, so that a handler is an operator
\* from record to record.  info is the handler's return value as run() uses
\* it (text to add to next_room; empty for None).
Raise(m, e) == [m EXCEPT !.error = e]

Ok(m) == m.error = "none"

\* Python list subscripts: -n .. n-1 are valid, negatives count from the end.
InList(i, n) == i >= -n /\ i < n

Norm(i, n) == IF i < 0 THEN i + n ELSE i

\* ram_read / ram_write: plain list subscripts, no range check of their own.
ram_read(m, address) == m.ram[Norm(address, RamSize)]

ram_write(m, address, value) == [m EXCEPT !.ram[Norm(address, RamSize)] = value]

first(m) == ram_read(m, arg_1)

second(m) == ram_read(m, arg_2)

\* self.reg[int(c, 2)] for an operand cell c: int() of a Python int with a
\* base is a TypeError, a subscript outside -8..7 an IndexError.
RegIndexError(c) ==
    IF IsRaw(c) THEN "TypeError"
    ELSE IF ~InList(c.val, NumRegs) THEN "IndexError"
    ELSE "none"

RegIndex(c) == Norm(c.val, NumRegs)

\* int(self.reg[int(c, 2)], 2)
RegIntError(m, c) ==
    IF RegIndexError(c) # "none" THEN RegIndexError(c)
    ELSE IF IsRaw(m.reg[RegIndex(c)]) THEN "TypeError"
    ELSE "none"

RegInt(m, c) == m.reg[RegIndex(c)].val

\* self.ram[i] for a cell i used as the subscript (the stack pointer).
RamIndexError(i) ==
    IF IsByte(i) THEN "TypeError"
    ELSE IF ~InList(i.val, RamSize) THEN "IndexError"
    ELSE "none"

\* ------------------------------------------------------------ core handlers

PRN(m) ==
    LET e == RegIntError(m, first(m)) IN
    IF e # "none" THEN Raise(m, e)
    ELSE [m EXCEPT !.stdout = @ \o DecText(RegInt(m, first(m))),
                   !.info = Bin08Text(RegInt(m, first(m)))]

\* The error handlers the process may have been given for sys.stdout: strict,
\* or surrogateescape as under the C.UTF-8 locale.  The encoding is utf-8.
StdoutErrors == {"strict", "surrogateescape"}

\* print() can encode chr(v): a lone surrogate cannot be encoded, except that
\* surrogateescape writes 0xdc80..0xdcff as the bytes 0x80..0xff.
Encodes(v, errors) ==
    \/ v < 55296
    \/ v > 57343
    \/ errors = "surrogateescape" /\ v >= 56448 /\ v <= 56575

\* A PRA whose result is dropped when the character is NUL.
PRA_SkipsNul(m) ==
    LET e == RegIntError(m, first(m))
        v == RegInt(m, first(m))
    IN  IF e # "none" THEN Raise(m, e)
        ELSE IF v < 0 \/ v > 1114111 THEN Raise(m, "ValueError")
        ELSE IF ~Encodes(v, m.stdout_errors) THEN Raise(m, "UnicodeEncodeError")
        ELSE [m EXCEPT !.stdout = @ \o <<v>>, !.info = IF v = 0 THEN <<>> ELSE <<v>>]

\* chr() accepts 0..0x10ffff; print() raises when the character cannot be
\* encoded.  stdout records the characters written.
PRA(m) ==
    LET e == RegIntError(m, first(m))
        v == RegInt(m, first(m))
    IN  IF e # "none" THEN Raise(m, e)
        ELSE IF v < 0 \/ v > 1114111 THEN Raise(m, "ValueError")
        ELSE IF ~Encodes(v, m.stdout_errors) THEN Raise(m, "UnicodeEncodeError")
        ELSE [m EXCEPT !.stdout = @ \o <<v>>, !.info = <<v>>]

LDI(m) ==
    LET e == RegIndexError(first(m)) IN
    IF e # "none" THEN Raise(m, e)
    ELSE [m EXCEPT !.reg[RegIndex(first(m))] = second(m)]

HLT(m) == m

NOP(m) == m

LD(m) ==
    LET eb == RegIntError(m, second(m))
        addr == RegInt(m, second(m))
        ea == RegIndexError(first(m))
    IN  IF eb # "none" THEN Raise(m, eb)
        ELSE IF ~InList(addr, RamSize) THEN Raise(m, "IndexError")
        ELSE IF ea # "none" THEN Raise(m, ea)
        ELSE [m EXCEPT !.reg[RegIndex(first(m))] = m.ram[Norm(addr, RamSize)]]

ST(m) ==
    LET eb == RegIndexError(second(m))
        ea == RegIntError(m, first(m))
        addr == RegInt(m, first(m))
    IN  IF eb # "none" THEN Raise(m, eb)
        ELSE IF ea # "none" THEN Raise(m, ea)
        ELSE IF ~InList(addr, RamSize) THEN Raise(m, "IndexError")
        ELSE [m EXCEPT !.ram[Norm(addr, RamSize)] = m.reg[RegIndex(second(m))]]

\* self.reg[self.SP] -= 1 (a str stack pointer cannot be decremented).
DecSP(m) ==
    IF ~Ok(m) THEN m
    ELSE IF IsByte(m.reg[SP]) THEN Raise(m, "TypeError")
    ELSE [m EXCEPT !.reg[SP] = Raw(@.val - 1)]

\* self.reg[self.SP] += 1
IncSP(m) ==
    IF ~Ok(m) THEN m
    ELSE IF IsByte(m.reg[SP]) THEN Raise(m, "TypeError")
    ELSE [m EXCEPT !.reg[SP] = Raw(@.val + 1)]

\* self.ram[self.reg[self.SP]] = c
StoreAtSP(m, c) ==
    IF ~Ok(m) THEN m
    ELSE IF RamIndexError(m.reg[SP]) # "none" THEN Raise(m, RamIndexError(m.reg[SP]))
    ELSE [m EXCEPT !.ram[Norm(m.reg[SP].val, RamSize)] = c]

\* self.ram[self.reg[self.SP]] as a value (only used where it is defined).
TopOfStack(m) == m.ram[Norm(m.reg[SP].val, RamSize)]

PUSH(m) ==
    LET m1 == DecSP(m)
        e == RegIndexError(first(m1))
    IN  IF ~Ok(m1) THEN m1
        ELSE IF e # "none" THEN Raise(m1, e)
        ELSE StoreAtSP(m1, m1.reg[RegIndex(first(m1))])

POP(m) ==
    LET es == RamIndexError(m.reg[SP])
        e == RegIndexError(first(m))
    IN  IF es # "none" THEN Raise(m, es)
        ELSE IF e # "none" THEN Raise(m, e)
        ELSE IncSP([m EXCEPT !.reg[RegIndex(first(m))] = TopOfStack(m)])

\* --------------------------------------------------- control-flow handlers

\* self.pc = int(self.reg[int(self.first(), 2)], 2)
JumpToA(m) ==
    IF ~Ok(m) THEN m
    ELSE IF RegIntError(m, first(m)) # "none" THEN Raise(m, RegIntError(m, first(m)))
    ELSE [m EXCEPT !.pc = Raw(RegInt(m, first(m)))]

CALL(m) ==
    LET m1 == DecSP(m) IN
    JumpToA(StoreAtSP(m1, Raw(m1.pc.val + 1)))

RET(m) ==
    LET es == RamIndexError(m.reg[SP]) IN
    IF es # "none" THEN Raise(m, es)
    ELSE IncSP([m EXCEPT !.pc = TopOfStack(m)])

\* The for loop of INT: push registers i..6, zeroing each after its push.
RECURSIVE PushRegisters(_, _)
PushRegisters(m, i) ==
    IF ~Ok(m) \/ i > 6 THEN m
    ELSE LET m1 == StoreAtSP(DecSP(m), m.reg[i]) IN
         IF ~Ok(m1) THEN m1
         ELSE PushRegisters([m1 EXCEPT !.reg[i] = Byte(0)], i + 1)

\* The value INT ands into the IS register.  Python binds - tighter than &:
\* IS & 7 - ((0xff - interrupt) + 1) is IS & (7 - ((0xff - interrupt) + 1)).
ClearedIS(is, interrupt) == BitAnd(is, 7 - ((255 - interrupt) + 1))

INT(m) ==
    LET ei == IF IsRaw(first(m)) THEN "TypeError" ELSE "none"
        interrupt == first(m).val
        es == IF IsRaw(m.reg[IS]) THEN "TypeError" ELSE "none"
        m1 == [m EXCEPT !.reg[IS] = Byte(ClearedIS(m.reg[IS].val, interrupt)),
                        !.interrupts = FALSE]
        m2 == StoreAtSP(DecSP(m1), m1.pc)
        m3 == StoreAtSP(DecSP(m2), m2.fl)
        m4 == PushRegisters(m3, 0)
    IN  IF ei # "none" THEN Raise(m, ei)
        ELSE IF es # "none" THEN Raise(m, es)
        ELSE IF ~Ok(m4) THEN m4
        ELSE IF ~InList(interrupt, RamSize) THEN Raise(m4, "IndexError")
        ELSE IF IsRaw(ram_read(m4, interrupt)) THEN Raise(m4, "TypeError")
        ELSE [m4 EXCEPT !.pc = Raw(ram_read(m4, interrupt).val)]

\* The for loop of IRET: pop registers i..0.
RECURSIVE PopRegisters(_, _)
PopRegisters(m, i) ==
    IF ~Ok(m) \/ i < 0 THEN m
    ELSE IF RamIndexError(m.reg[SP]) # "none" THEN Raise(m, RamIndexError(m.reg[SP]))
    ELSE PopRegisters(IncSP([m EXCEPT !.reg[i] = TopOfStack(m)]), i - 1)

IRET(m) ==
    LET m1 == PopRegisters(m, 6)
        m2 == IF ~Ok(m1) THEN m1
              ELSE IF RamIndexError(m1.reg[SP]) # "none"
                   THEN Raise(m1, RamIndexError(m1.reg[SP]))
              ELSE IncSP([m1 EXCEPT !.fl = TopOfStack(m1)])
        m3 == IF ~Ok(m2) THEN m2
              ELSE IF RamIndexError(m2.reg[SP]) # "none"
                   THEN Raise(m2, RamIndexError(m2.reg[SP]))
              ELSE IncSP([m2 EXCEPT !.pc = TopOfStack(m2)])
    IN  IF ~Ok(m3) THEN m3 ELSE [m3 EXCEPT !.interrupts = TRUE]

JMP(m) == JumpToA(m)

\* self.pc += 1 (the fall-through of a conditional jump).
NextPc(m) == [m EXCEPT !.pc = Raw(@.val + 1)]

\* if <cond>: jump else: fall through.  self.fl & k of a str fl is a TypeError.
Branch(m, taken) ==
    IF IsByte(m.fl) THEN Raise(m, "TypeError")
    ELSE IF taken THEN JumpToA(m)
    ELSE NextPc(m)

FlagE(m) == BitAnd(m.fl.val, 1) # 0

FlagG(m) == BitAnd(m.fl.val, 2) # 0

FlagL(m) == BitAnd(m.fl.val, 4) # 0

JEQ(m) == Branch(m, FlagE(m))

JNE(m) == Branch(m, ~FlagE(m))

JGT(m) == Branch(m, FlagG(m))

\* JGE that tests the Greater flag alone.
JGE_OnlyGreater(m) == Branch(m, FlagG(m))

JGE(m) == Branch(m, FlagE(m) \/ FlagG(m))

JLT(m) == Branch(m, FlagL(m))

JLE(m) == Branch(m, FlagE(m) \/ FlagL(m))

\* ------------------------------------------------------------ ALU handlers

\* Evaluating int(self.reg[int(self.first(), 2)], 2) and then the same for
\* second(): the first exception raised, if any.
BinaryError(m) ==
    IF RegIntError(m, first(m)) # "none" THEN RegIntError(m, first(m))
    ELSE RegIntError(m, second(m))

ValA(m) == RegInt(m, first(m))

ValB(m) == RegInt(m, second(m))

\* self.reg[int(self.first(), 2)] = f'{x:08b}'
SetA(m, x) == [m EXCEPT !.reg[RegIndex(first(m))] = Byte(x)]

DEC(m) ==
    IF RegIntError(m, first(m)) # "none" THEN Raise(m, RegIntError(m, first(m)))
    ELSE SetA(m, BitAnd(ValA(m) - 1, 255))

INC(m) ==
    IF RegIntError(m, first(m)) # "none" THEN Raise(m, RegIntError(m, first(m)))
    ELSE SetA(m, BitAnd(ValA(m) + 1, 255))

ADD(m) ==
    IF BinaryError(m) # "none" THEN Raise(m, BinaryError(m))
    ELSE SetA(m, BitAnd(ValA(m) + ValB(m), 255))

\* The difference is multiplied by 0xff, not masked with it.
SUB(m) ==
    IF BinaryError(m) # "none" THEN Raise(m, BinaryError(m))
    ELSE SetA(m, (ValA(m) - ValB(m)) * 255)

MUL(m) ==
    IF BinaryError(m) # "none" THEN Raise(m, BinaryError(m))
    ELSE SetA(m, MulMasked(ValA(m), ValB(m)))

\* A right shift of A by B; a negative shift count is a ValueError.
DIV(m) ==
    IF BinaryError(m) # "none" THEN Raise(m, BinaryError(m))
    ELSE IF ValB(m) < 0 THEN Raise(m, "ValueError")
    ELSE SetA(m, BitAnd(ShiftRight(ValA(m), ValB(m)), 255))

MOD(m) ==
    IF BinaryError(m) # "none" THEN Raise(m, BinaryError(m))
    ELSE IF ValB(m) = 0 THEN Raise(m, "ZeroDivisionError")
    ELSE SetA(m, BitAnd(PyMod(ValA(m), ValB(m)), 255))

AND(m) ==
    IF BinaryError(m) # "none" THEN Raise(m, BinaryError(m))
    ELSE SetA(m, BitAnd(BitAnd(ValA(m), ValB(m)), 255))

OR(m) ==
    IF BinaryError(m) # "none" THEN Raise(m, BinaryError(m))
    ELSE SetA(m, BitAnd(BitOr(ValA(m), ValB(m)), 255))

XOR(m) ==
    IF BinaryError(m) # "none" THEN Raise(m, BinaryError(m))
    ELSE SetA(m, BitAnd(BitXor(ValA(m), ValB(m)), 255))

\* int(~x, 2): int() of a Python int with a base always raises TypeError, so
\* NOT never reaches its store.
NOT(m) ==
    IF RegIntError(m, first(m)) # "none" THEN Raise(m, RegIntError(m, first(m)))
    ELSE Raise(m, "TypeError")

SHL(m) ==
    IF BinaryError(m) # "none" THEN Raise(m, BinaryError(m))
    ELSE IF ValB(m) < 0 THEN Raise(m, "ValueError")
    ELSE SetA(m, ShiftLeftMasked(ValA(m), ValB(m)))

SHR(m) ==
    IF BinaryError(m) # "none" THEN Raise(m, BinaryError(m))
    ELSE IF ValB(m) < 0 THEN Raise(m, "ValueError")
    ELSE SetA(m, BitAnd(ShiftRight(ValA(m), ValB(m)), 255))

\* Each branch masks fl down to its own bit and then sets it, so fl ends as
\* exactly that bit.  Exactly one of the three comparisons is true.
\* A CMP that sets its bit without clearing the others.
CMP_KeepsFlags(m) ==
    LET a == ValA(m)
        b == ValB(m)
        f == m.fl.val
    IN  IF BinaryError(m) # "none" THEN Raise(m, BinaryError(m))
        ELSE IF IsByte(m.fl) THEN Raise(m, "TypeError")
        ELSE IF a = b THEN [m EXCEPT !.fl = Raw(BitOr(f, 1))]
        ELSE IF a > b THEN [m EXCEPT !.fl = Raw(BitOr(f, 2))]
        ELSE [m EXCEPT !.fl = Raw(BitOr(f, 4))]

CMP(m) ==
    LET a == ValA(m)
        b == ValB(m)
        f == m.fl.val
    IN  IF BinaryError(m) # "none" THEN Raise(m, BinaryError(m))
        ELSE IF IsByte(m.fl) THEN Raise(m, "TypeError")
        ELSE IF a = b THEN [m EXCEPT !.fl = Raw(BitOr(BitAnd(f, 1), 1))]
        ELSE IF a > b THEN [m EXCEPT !.fl = Raw(BitOr(BitAnd(f, 2), 2))]
        ELSE [m EXCEPT !.fl = Raw(BitOr(BitAnd(f, 4), 4))]

\* ----------------------------------------------------------------- decode

\* The fields run() takes from the instruction byte.
OperandCount(instruction) == ShiftRight(instruction, 6)

IsAlu(instruction) == ShiftRight(BitAnd(instruction, 32), 5)

SetsPc(instruction) == ShiftRight(BitAnd(instruction, 16), 4)

OpCode(instruction) == BitAnd(instruction, 15)

\* self.op_map[alu][adv_pc] as a function from op_code to the handler's name;
\* op_map[1][1] is None, which is modelled as the string "None".
AluOps ==
    (0 :> "ADD") @@ (8 :> "AND") @@ (7 :> "CMP") @@ (6 :> "DEC") @@ (3 :> "DIV")
    @@ (5 :> "INC") @@ (4 :> "MOD") @@ (2 :> "MUL") @@ (9 :> "NOT") @@ (10 :> "OR")
    @@ (12 :> "SHL") @@ (13 :> "SHR") @@ (1 :> "SUB") @@ (11 :> "XOR")

PcOps ==
    (0 :> "CALL") @@ (2 :> "INT") @@ (3 :> "IRET") @@ (5 :> "JEQ") @@ (10 :> "JGE")
    @@ (7 :> "JGT") @@ (9 :> "JLE") @@ (8 :> "JLT") @@ (4 :> "JMP") @@ (6 :> "JNE")
    @@ (1 :> "RET")

CoreOps ==
    (1 :> "HLT") @@ (3 :> "LD") @@ (2 :> "LDI") @@ (0 :> "NOP") @@ (6 :> "POP")
    @@ (8 :> "PRA") @@ (7 :> "PRN") @@ (5 :> "PUSH") @@ (4 :> "ST")

op_map(alu, adv_pc) ==
    IF alu = 1 /\ adv_pc = 0 THEN AluOps
    ELSE IF alu = 0 /\ adv_pc = 1 THEN PcOps
    ELSE IF alu = 0 /\ adv_pc = 0 THEN CoreOps
    ELSE "None"

\* op_code in self.op_map[alu][adv_pc] raises TypeError when the map is None.
MapIsNone(alu, adv_pc) == alu = 1 /\ adv_pc = 1

\* The handler a name stands for, applied.
Apply(name, m) ==
    CASE name = "ADD" -> ADD(m) [] name = "AND" -> AND(m) [] name = "CMP" -> CMP(m)
      [] name = "DEC" -> DEC(m) [] name = "DIV" -> DIV(m) [] name = "INC" -> INC(m)
      [] name = "MOD" -> MOD(m) [] name = "MUL" -> MUL(m) [] name = "NOT" -> NOT(m)
      [] name = "OR" -> OR(m) [] name = "SHL" -> SHL(m) [] name = "SHR" -> SHR(m)
      [] name = "SUB" -> SUB(m) [] name = "XOR" -> XOR(m)
      [] name = "CALL" -> CALL(m) [] name = "INT" -> INT(m) [] name = "IRET" -> IRET(m)
      [] name = "JEQ" -> JEQ(m) [] name = "JGE" -> JGE(m) [] name = "JGT" -> JGT(m)
      [] name = "JLE" -> JLE(m) [] name = "JLT" -> JLT(m) [] name = "JMP" -> JMP(m)
      [] name = "JNE" -> JNE(m) [] name = "RET" -> RET(m)
      [] name = "HLT" -> HLT(m) [] name = "LD" -> LD(m) [] name = "LDI" -> LDI(m)
      [] name = "NOP" -> NOP(m) [] name = "POP" -> POP(m) [] name = "PRA" -> PRA(m)
      [] name = "PRN" -> PRN(m) [] name = "PUSH" -> PUSH(m) [] name = "ST" -> ST(m)

\* The operand loop of run(): n times, advance pc, copy the cell there into
\* ram[args] and step args down from 0xff.
RECURSIVE FetchOperands(_, _, _)
FetchOperands(m, n, args) ==
    IF ~Ok(m) \/ n <= 0 THEN m
    ELSE LET m1 == NextPc(m) IN
         IF ~InList(m1.pc.val, RamSize) \/ ~InList(args, RamSize)
         THEN Raise(m1, "IndexError")
         ELSE FetchOperands(ram_write(m1, args, ram_read(m1, m1.pc.val)), n - 1, args - 1)

\* "Unknown instruction {op_code} at address {pc}" and print's newline.
UnknownText(op_code, pc) ==
    <<85, 110, 107, 110, 111, 119, 110, 32, 105, 110, 115, 116, 114, 117, 99,
      116, 105, 111, 110, 32>> \o DecText(op_code)
    \o <<32, 97, 116, 32, 97, 100, 100, 114, 101, 115, 115, 32>> \o DecText(pc)
    \o <<10>>

\* ------------------------------------------------------------------- load

\* line.split('#')[0]
RECURSIVE BeforeHash(_)
BeforeHash(t) ==
    IF t = <<>> \/ Head(t) = 35 THEN <<>> ELSE <<Head(t)>> \o BeforeHash(Tail(t))

\* The characters str.strip() removes: those str.isspace() is true of.
IsSpace(c) ==
    c \in {9, 10, 11, 12, 13, 28, 29, 30, 31, 32, 133, 160, 5760,
           8192, 8193, 8194, 8195, 8196, 8197, 8198, 8199, 8200, 8201, 8202,
           8232, 8233, 8239, 8287, 12288}

RECURSIVE LStrip(_)
LStrip(t) == IF t # <<>> /\ IsSpace(Head(t)) THEN LStrip(Tail(t)) ELSE t

RECURSIVE RStrip(_)
RStrip(t) ==
    IF t # <<>> /\ IsSpace(t[Len(t)]) THEN RStrip(SubSeq(t, 1, Len(t) - 1)) ELSE t

Strip(t) == RStrip(LStrip(t))

\* The characters int() reads as the digit zero: the zeros of the decimal
\* digit ranges of Unicode 14.  The digit one of each range follows its zero.
DigitZeros ==
    {48, 1632, 1776, 1984, 2406, 2534, 2662, 2790, 2918, 3046, 3174, 3302,
     3430, 3558, 3664, 3792, 3872, 4160, 4240, 6112, 6160, 6470, 6608, 6784,
     6800, 6992, 7088, 7232, 7248, 42528, 43216, 43264, 43472, 43504, 43600,
     44016, 65296, 66720, 68912, 69734, 69872, 69942, 70096, 70384, 70736,
     70864, 71248, 71360, 71472, 71904, 72016, 72784, 73040, 73120, 92768,
     92864, 93008, 120782, 120792, 120802, 120812, 120822, 123200, 123632,
     125264, 130032}

\* The value of character c as a base-2 digit, -1 when it is none.
Bit(c) ==
    IF c < 128 THEN (IF c \in {48, 49} THEN c - 48 ELSE -1)
    ELSE IF c \in DigitZeros THEN 0
    ELSE IF (c - 1) \in DigitZeros THEN 1
    ELSE -1

\* The digits of a base-2 literal after its sign and prefix: 0 and 1, with
\* single underscores allowed before a digit.  -1 stands for ValueError.
RECURSIVE BinDigits(_, _, _)
BinDigits(t, acc, seen) ==
    IF t = <<>> THEN (IF seen THEN acc ELSE -1)
    ELSE IF Bit(Head(t)) >= 0 THEN BinDigits(Tail(t), 2 * acc + Bit(Head(t)), TRUE)
    ELSE IF Head(t) = 95 /\ Len(t) >= 2 /\ Bit(t[2]) >= 0 THEN BinDigits(Tail(t), acc, seen)
    ELSE -1

\* int(t, 2) for stripped text t: [ok, val]; ok is FALSE for ValueError.
Int2Text(t) ==
    LET neg == t # <<>> /\ Head(t) = 45
        signed == t # <<>> /\ Head(t) \in {43, 45}
        u == IF signed THEN Tail(t) ELSE t
        hasPrefix == Len(u) >= 2 /\ Bit(u[1]) = 0 /\ u[2] \in {98, 66}
        d == IF hasPrefix THEN SubSeq(u, 3, Len(u)) ELSE u
        startsOk == d # <<>> /\ (Bit(Head(d)) >= 0 \/ (hasPrefix /\ Head(d) = 95))
        v == IF startsOk THEN BinDigits(d, 0, FALSE) ELSE -1
    IN  [ok |-> v >= 0, val |-> IF neg THEN -v ELSE v]

\* A loop body whose cursor wraps at the end of the memory instead of failing.
LoadLine_Wraps(m, text) ==
    IF ~Ok(m) THEN m
    ELSE LET line == Strip(BeforeHash(text))
             n == Int2Text(line)
         IN  IF line = <<>> THEN m
             ELSE IF ~n.ok THEN Raise(m, "ValueError")
             ELSE [m EXCEPT !.ram[m.heap_height % RamSize] = Byte(n.val),
                            !.heap_height = @ + 1]

RECURSIVE LoadLines_Wraps(_, _, _, _)
LoadLines_Wraps(m, lines, i, j) ==
    IF i > j THEN m
    ELSE IF i = j THEN LoadLine_Wraps(m, lines[i])
    ELSE LET mid == (i + j) \div 2
             half == LoadLines_Wraps(m, lines, i, mid)
         IN  IF ~Ok(half) THEN half ELSE LoadLines_Wraps(half, lines, mid + 1, j)

load_Wraps(m, lines, i) == LoadLines_Wraps(m, lines, i, Len(lines))

\* A loop body whose cursor also advances over blank and comment lines.
LoadLine_CountsBlank(m, text) ==
    IF ~Ok(m) THEN m
    ELSE LET line == Strip(BeforeHash(text))
             n == Int2Text(line)
         IN  IF line = <<>> THEN [m EXCEPT !.heap_height = @ + 1]
             ELSE IF ~n.ok THEN Raise(m, "ValueError")
             ELSE IF ~InList(m.heap_height, RamSize) THEN Raise(m, "IndexError")
             ELSE [m EXCEPT !.ram[Norm(m.heap_height, RamSize)] = Byte(n.val),
                            !.heap_height = @ + 1]

RECURSIVE LoadLines_CountsBlank(_, _, _, _)
LoadLines_CountsBlank(m, lines, i, j) ==
    IF i > j THEN m
    ELSE IF i = j THEN LoadLine_CountsBlank(m, lines[i])
    ELSE LET mid == (i + j) \div 2
             half == LoadLines_CountsBlank(m, lines, i, mid)
         IN  IF ~Ok(half) THEN half ELSE LoadLines_CountsBlank(half, lines, mid + 1, j)

load_CountsBlank(m, lines, i) == LoadLines_CountsBlank(m, lines, i, Len(lines))

\* The body of the for loop of load(): the comment and the surrounding
\* whitespace are stripped, an empty line is skipped, any other is parsed
\* and stored at the cursor.
LoadLine(m, text) ==
    IF ~Ok(m) THEN m
    ELSE LET line == Strip(BeforeHash(text))
             n == Int2Text(line)
         IN  IF line = <<>> THEN m
             ELSE IF ~n.ok THEN Raise(m, "ValueError")
             ELSE IF ~InList(m.heap_height, RamSize) THEN Raise(m, "IndexError")
             ELSE [m EXCEPT !.ram[Norm(m.heap_height, RamSize)] = Byte(n.val),
                            !.heap_height = @ + 1]

\* The for loop of load() over lines i..j, the first half of the lines
\* before the second; an exception ends the loop.
RECURSIVE LoadLines(_, _, _, _)
LoadLines(m, lines, i, j) ==
    IF i > j THEN m
    ELSE IF i = j THEN LoadLine(m, lines[i])
    ELSE LET mid == (i + j) \div 2
             half == LoadLines(m, lines, i, mid)
         IN  IF ~Ok(half) THEN half ELSE LoadLines(half, lines, mid + 1, j)

\* The loop of load() over the lines from index i on.
load(m, lines, i) == LoadLines(m, lines, i, Len(lines))

\* ------------------------------------------------------------------- poll

\* get_data() returning False: no character is waiting.
NoKey == -1

\* The lowest i in 0..7 with bit i of mask set, or 8 when there is none.
RECURSIVE LowestLine(_, _)
LowestLine(mask, i) ==
    IF i > 7 THEN 8
    ELSE IF BitAnd(ShiftRight(mask, i), 1) = 1 THEN i
    ELSE LowestLine(mask, i + 1)

\* The timer and keyboard checks of run().  timer: a second has elapsed since
\* the last fire; key: the character get_data() returned, or NoKey.  ESC only
\* calls HLT(), which does nothing, and is then stored like any other key.
Sources(m, timer, key) ==
    LET m1 == IF timer THEN [m EXCEPT !.reg[IS] = Byte(1)] ELSE m IN
    IF key # NoKey
    THEN [ram_write(IF key = 27 THEN HLT(m1) ELSE m1, KEY, Byte(key))
             EXCEPT !.reg[IS] = Byte(2)]
    ELSE m1

\* A mask that is the status register alone.
MaskOfStatus(m) == m.reg[IS].val

\* mask = IM & IS and the line the for loop of run() stops at (8: none).
Mask(m) == BitAnd(m.reg[IM].val, m.reg[IS].val)

ActiveLine(m) ==
    IF IsRaw(m.reg[IM]) \/ IsRaw(m.reg[IS]) THEN 8 ELSE LowestLine(Mask(m), 0)

\* "Check if any interrupts have been triggered": the vector address of the
\* lowest active line goes to ram[args] and INT() is called.
Service(m) ==
    IF IsRaw(m.reg[IM]) \/ IsRaw(m.reg[IS]) THEN Raise(m, "TypeError")
    ELSE IF ActiveLine(m) > 7 THEN m
    ELSE INT(ram_write(m, arg_1, Byte((arg_1 - 7) + ActiveLine(m))))

\* A poll that examines the lines whether or not interrupts are enabled.
PollAlways(m, timer, key) == Service(Sources(m, timer, key))

\* The "if self.interrupts:" block of run().
PollInterrupts(m, timer, key) ==
    IF ~m.interrupts THEN m ELSE Service(Sources(m, timer, key))

\* ------------------------------------------------------------- run: fetch

\* isinstance(self.ram_read(self.pc), int): the subscript itself can raise.
PcError(m) == RamIndexError(m.pc)

\* A halt test that takes the value 0, not the type, for the end of the program.
HaltsOnZero(m) == PcError(m) = "none" /\ ram_read(m, m.pc.val).val = 0

Halts(m) == PcError(m) = "none" /\ IsRaw(ram_read(m, m.pc.val))

Instruction(m) == ram_read(m, m.pc.val).val

\* The operand loop and "if not adv_pc: self.pc += 1".
Fetch(m) ==
    LET m1 == FetchOperands(m, OperandCount(Instruction(m)), arg_1) IN
    IF Ok(m1) /\ SetsPc(Instruction(m)) = 0 THEN NextPc(m1) ELSE m1

\* The exception, if any, between the halt test and the call of a handler.
DecodeError(m) ==
    IF PcError(m) # "none" THEN PcError(m)
    ELSE IF Halts(m) THEN "none"
    ELSE IF ~Ok(Fetch(m)) THEN Fetch(m).error
    ELSE IF MapIsNone(IsAlu(Instruction(m)), SetsPc(Instruction(m))) THEN "TypeError"
    ELSE "none"

Decodes(m) == PcError(m) = "none" /\ ~Halts(m) /\ DecodeError(m) = "none"

Known(m) ==
    OpCode(Instruction(m)) \in
        DOMAIN op_map(IsAlu(Instruction(m)), SetsPc(Instruction(m)))

HandlerName(m) ==
    op_map(IsAlu(Instruction(m)), SetsPc(Instruction(m)))[OpCode(Instruction(m))]

\* info = handler(); if info: self.next_room += info
Dispatched(m) ==
    LET r == Apply(HandlerName(m), Fetch(m)) IN
    IF Ok(r) THEN [r EXCEPT !.next_room = @ \o r.info, !.info = <<>>] ELSE r

\* The else branch: the message is printed and the loop goes on.
Skipped(m) ==
    LET f == Fetch(m) IN
    [f EXCEPT !.stdout = @ \o UnknownText(OpCode(Instruction(m)), f.pc.val)]

\* ------------------------------------------------------------------ trace

\* A cell in an f-string: the text of a str, the decimal digits of an int.
Show(c) == IF IsByte(c) THEN Bin08Text(c.val) ELSE DecText(c.val)

\* "r0, r1, ..., r7, ": each register followed by a comma and a space.
RECURSIVE ShowRegisters(_, _)
ShowRegisters(m, i) ==
    IF i >= NumRegs THEN <<>>
    ELSE Show(m.reg[i]) \o <<44, 32>> \o ShowRegisters(m, i + 1)

\* What the three print calls of trace() write: "TRACE: pc: ", ", fl: ",
\* ", ram: ", ", ram +: ", ", ram ++: ", ",", "\nRegisters: " and its newline,
\* the registers, and "\n\n" and its newline.
TraceText(m) ==
    <<84, 82, 65, 67, 69, 58, 32, 112, 99, 58, 32>> \o Show(m.pc)
    \o <<44, 32, 102, 108, 58, 32>> \o Show(m.fl)
    \o <<44, 32, 114, 97, 109, 58, 32>> \o Show(ram_read(m, m.pc.val))
    \o <<44, 32, 114, 97, 109, 32, 43, 58, 32>> \o Show(ram_read(m, m.pc.val + 1))
    \o <<44, 32, 114, 97, 109, 32, 43, 43, 58, 32>>
    \o Show(ram_read(m, m.pc.val + 2)) \o <<44>>
    \o <<10, 82, 101, 103, 105, 115, 116, 101, 114, 115, 58, 32, 10>>
    \o ShowRegisters(m, 0) \o <<10, 10, 10>>

\* CPU.trace(): the three cells at pc are read before anything is printed,
\* so a subscript out of range raises IndexError (TypeError when pc is a str)
\* and prints nothing.
trace(m) ==
    IF PcError(m) # "none" THEN Raise(m, PcError(m))
    ELSE IF ~InList(m.pc.val + 1, RamSize) \/ ~InList(m.pc.val + 2, RamSize)
         THEN Raise(m, "IndexError")
    ELSE [m EXCEPT !.stdout = @ \o TraceText(m)]

\* ------------------------------------------------------------------ state

VARIABLES
    ram,          \* self.ram: 256 cells
    reg,          \* self.reg: 8 cells
    pc,           \* self.pc
    fl,           \* self.fl
    heap_height,  \* self.heap_height: the load cursor
    interrupts,   \* self.interrupts
    next_room,    \* self.next_room: the text run() returns
    stdout,       \* what print() has written
    error,        \* the class of the exception that ended load() or run()
    stage,        \* "new", "poll", "fetch", "halted" or "fault"
    fires,        \* timer fires so far
    keys,         \* keystrokes read so far
    hist          \* history: the latest step, calls and interrupts in progress

vars ==
    <<ram, reg, pc, fl, heap_height, interrupts, next_room, stdout, error,
      stage, fires, keys, hist>>

\* The CPU object as a record, and the assignment of a record to it.  The
\* error handler of sys.stdout belongs to the process, not to the object: a
\* step that prints is given it.
Cur ==
    [ram |-> ram, reg |-> reg, pc |-> pc, fl |-> fl, heap_height |-> heap_height,
     interrupts |-> interrupts, next_room |-> next_room, stdout |-> stdout,
     error |-> error, info |-> <<>>, stdout_errors |-> "strict"]

Becomes(m) ==
    /\ ram' = m.ram
    /\ reg' = m.reg
    /\ pc' = m.pc
    /\ fl' = m.fl
    /\ heap_height' = m.heap_height
    /\ interrupts' = m.interrupts
    /\ next_room' = m.next_room
    /\ stdout' = m.stdout
    /\ error' = m.error

\* ---------------------------------------------------------------- history
\* History variables record what the properties of steps and of instruction
\* pairs refer to.  They are written, never read, by the machine.

\* CPU.__init__: the object before load().
New ==
    [ram |-> [a \in 0..(RamSize - 1) |-> Raw(0)],
     reg |-> [r \in 0..(NumRegs - 1) |-> IF r = SP THEN Raw(244) ELSE Byte(0)],
     pc |-> Raw(0), fl |-> Raw(0), heap_height |-> 0, interrupts |-> TRUE,
     next_room |-> <<>>, stdout |-> <<>>, error |-> "none", info |-> <<>>,
     stdout_errors |-> "strict"]

\* The latest step: its kind ("load", "poll", "halt", "fault", "dispatch",
\* "unknown" or "trace"), the handler called, the object before it, and what the poll
\* found.
Step(kind, name, before, timer, key) ==
    [kind |-> kind, name |-> name, before |-> before, timer |-> timer, key |-> key]

NoStep == Step("none", "none", New, FALSE, NoKey)

\* A dispatched instruction: its handler, the register its first operand
\* names (-1: none), and the stack pointer and that register before it.
NoLast == [name |-> "none", a |-> -1, sp |-> Raw(0), val |-> Raw(0)]

\* A CALL in progress: the address p of its opcode and the stack pointer
\* before it.
NoCall == [p |-> -1, sp |-> Raw(0)]

\* An interrupt in service: the registers, flags and program counter when the
\* line was chosen, and the line.
NoFrame == [reg |-> New.reg, fl |-> Raw(0), pc |-> Raw(0), line |-> 8]

\* text: the lines given to load(), kept while the load is the latest step.
NoHist ==
    [step |-> NoStep, last |-> NoLast, prior |-> NoLast,
     calls |-> <<>>, ret |-> NoCall, frames |-> <<>>, iret |-> NoFrame,
     text |-> <<>>]

Top(q, none) == IF q = <<>> THEN none ELSE q[Len(q)]

DropLast(q) == IF q = <<>> THEN q ELSE SubSeq(q, 1, Len(q) - 1)

\* After a poll: source is the object as the timer and keyboard checks left
\* it, after as the service left it.  A poll that stores a keystroke or
\* services an interrupt comes between the instructions around it.
AfterPoll(h, before, source, after, timer, key) ==
    LET serviced == before.interrupts /\ ActiveLine(source) <= 7 /\ Ok(after) IN
    [h EXCEPT
       !.step = Step("poll", "none", before, timer, key),
       !.text = <<>>,
       !.last = IF serviced \/ (before.interrupts /\ key # NoKey) THEN NoLast ELSE @,
       !.frames = IF serviced
                  THEN Append(@, [reg |-> source.reg, fl |-> source.fl, pc |-> source.pc,
                                  line |-> ActiveLine(source)])
                  ELSE @]

\* After the dispatch of handler name: before is the object at the fetch,
\* fetched the object the handler saw, after the object it left.
AfterDispatch(h, name, before, fetched, after) ==
    LET a == IF RegIndexError(first(fetched)) = "none" THEN RegIndex(first(fetched)) ELSE -1 IN
    [h EXCEPT
       !.step = Step("dispatch", name, before, FALSE, NoKey),
       !.prior = h.last,
       !.last = IF Ok(after)
                THEN [name |-> name, a |-> a, sp |-> before.reg[SP],
                      val |-> IF a >= 0 THEN before.reg[a] ELSE Raw(0)]
                ELSE NoLast,
       !.calls = IF name = "CALL" /\ Ok(after)
                 THEN Append(@, [p |-> before.pc.val, sp |-> before.reg[SP]])
                 ELSE IF name = "RET" THEN DropLast(@)
                 ELSE @,
       !.ret = IF name = "RET" THEN Top(h.calls, NoCall) ELSE @,
       !.frames = IF name = "IRET" THEN DropLast(@) ELSE @,
       !.iret = IF name = "IRET" THEN Top(h.frames, NoFrame) ELSE @]

\* After a step that calls no handler.
AfterOther(h, kind, before) ==
    [h EXCEPT !.step = Step(kind, "none", before, FALSE, NoKey),
              !.last = IF kind = "unknown" THEN NoLast ELSE @]

\* --------------------------------------------------------------- programs
\* The inputs of the model: program texts as load() reads them from the file.

\* The instruction byte that decodes to handler name with n operands.
CodeOf(ops, name) == CHOOSE c \in DOMAIN ops : ops[c] = name

Named(ops) == {ops[c] : c \in DOMAIN ops}

Encode(name, n) ==
    IF name \in Named(AluOps) THEN 64 * n + 32 + CodeOf(AluOps, name)
    ELSE IF name \in Named(PcOps) THEN 64 * n + 16 + CodeOf(PcOps, name)
    ELSE 64 * n + CodeOf(CoreOps, name)

I0(name) == <<Encode(name, 0)>>

I1(name, a) == <<Encode(name, 1), a>>

I2(name, a, b) == <<Encode(name, 2), a, b>>

\* Leave the program: jump to an address that was never loaded.
Exit == I2("LDI", 2, 200) \o I1("JMP", 2)

\* One line of text per byte, formatted as the game's clue files are.
ProgramText(bytes) == [i \in 1..Len(bytes) |-> Bin08Text(bytes[i]) \o <<10>>]

Vals == {0, 1, 255}

BinaryNames == {"ADD", "SUB", "MUL", "DIV", "MOD", "AND", "OR", "XOR", "SHL", "SHR", "CMP"}

UnaryNames == {"NOT", "INC", "DEC"}

JumpNames == {"JMP", "JEQ", "JNE", "JGT", "JGE", "JLT", "JLE"}

\* LDI R0,a ; LDI R1,b ; <op> R0,R1 ; PRA R0, and the one-operand handlers.
AluPrograms ==
    {I2("LDI", 0, a) \o I2("LDI", 1, b) \o I2(op, 0, 1) \o I1("PRA", 0) :
        a \in Vals, b \in Vals, op \in BinaryNames}
    \cup {I2("LDI", 0, a) \o I1(op, 0) \o I1("PRN", 0) : a \in Vals, op \in UnaryNames}

\* Two comparisons in a row, the second with the operands exchanged.
CmpPrograms ==
    {I2("LDI", 0, a) \o I2("LDI", 1, b) \o I2("CMP", 0, 1) \o I2("CMP", 1, 0) \o Exit :
        a \in Vals, b \in Vals}

\* LDI R0,v ; PRA R0 ; PRN R0 ; PRA R0, and a PRA of the lone surrogates
\* 0xd800 and 0xdc80, which a line wider than 8 bits puts in a register.
PrintPrograms ==
    {I2("LDI", 0, v) \o I1("PRA", 0) \o I1("PRN", 0) \o I1("PRA", 0) \o Exit :
        v \in {0, 5, 65, 255}}
    \cup {I2("LDI", 0, 5) \o I1("PRN", 0), I2("LDI", 0, 5) \o I1("PRA", 0)}
    \cup {I2("LDI", 0, v) \o I1("PRA", 0) : v \in {55296, 56448}}

\* A comparison and a jump over one PRA.
JumpPrograms ==
    {I2("LDI", 0, a) \o I2("LDI", 1, b) \o I2("LDI", 3, 16) \o I2("CMP", 0, 1)
       \o I1(j, 3) \o I2("LDI", 4, 65) \o I1("PRA", 4) \o Exit :
        a \in {0, 1}, b \in {0, 1}, j \in JumpNames}

\* n times POP R1: the stack pointer climbs from 0xf4.
RECURSIVE Pops(_)
Pops(n) == IF n = 0 THEN <<>> ELSE I1("POP", 1) \o Pops(n - 1)

\* Ways to move the stack pointer before the instructions of interest:
\* 0xf4 (untouched), 0xf5, 1 (POP R7 of the int 0 at 0xf4), 0, 0xff.
StackSetups ==
    {<<>>, Pops(1), I1("POP", 7), I1("POP", 7) \o I1("PUSH", 0), Pops(11)}

\* PUSH r ; POP r for a general register, the IS register and the stack
\* pointer itself, and a PUSH popped into another register.
StackPrograms ==
    {pre \o I2("LDI", r, 5) \o I1("PUSH", r) \o I1("POP", r) \o Exit :
        pre \in StackSetups, r \in {0, 6}}
    \cup {pre \o I1("PUSH", 7) \o I1("POP", 7) \o Exit : pre \in StackSetups}
    \cup {I2("LDI", 0, 5) \o I1("PUSH", 0) \o I1("POP", 1) \o I1("RET", 0)}

\* Bodies of a subroutine that keep the stack balanced.
CallBodies ==
    {<<>>,
     I2("LDI", 0, 65),
     I1("PUSH", 0) \o I1("POP", 0)}

\* pre ; LDI R1,T ; CALL R1 ; PRA R0 ; Exit ; T: body ; RET
CallPrograms ==
    {pre \o I2("LDI", 1, Len(pre) + 12) \o I1("CALL", 1) \o I1("PRA", 0) \o Exit
       \o body \o I0("RET") :
        pre \in {<<>>, Pops(11)}, body \in CallBodies}
    \cup {I2("LDI", 1, 243) \o I1("CALL", 1),
          I2("LDI", 1, 12) \o I1("CALL", 1) \o I1("PRA", 0) \o Exit
             \o I2("LDI", 2, 18) \o I1("CALL", 2) \o I0("RET") \o I0("RET")}

\* LDI R0,0xf8+v ; LDI R1,H ; ST R0,R1 ; [LDI R6,is] ; LDI R5,im ; NOP ; Exit ;
\* H: LDI R0,66 ; IRET.  The vector of line v points at H.
IntPrograms ==
    {I2("LDI", 0, 248 + v) \o I2("LDI", 1, 18 + Len(setis)) \o I2("ST", 0, 1)
       \o setis \o I2("LDI", 5, im) \o I0("NOP") \o Exit
       \o I2("LDI", 0, 66) \o I0("IRET") :
        v \in {0, 1, 2}, im \in {0, 1, 2, 4, 7},
        setis \in {<<>>, I2("LDI", 6, 3), I2("LDI", 6, 7)}}

\* Every handler on its own, with operands that name R0 or R7, and bytes that
\* decode to no handler: an unknown opcode in each namespace, the (alu, pc)
\* namespace that has no map, a NOP with three operand bytes, and an unknown
\* opcode of the namespace whose handlers set the program counter.
SinglePrograms ==
    {I2(op, a, b) : op \in BinaryNames \cup {"LDI", "LD", "ST"}, a \in {0, 7}, b \in {0, 7}}
    \cup {I1(op, a) : op \in UnaryNames \cup JumpNames \cup {"PUSH", "POP", "PRA", "PRN", "CALL", "INT"},
                      a \in {0, 7, 8}}
    \cup {I0(op) : op \in {"NOP", "HLT", "RET", "IRET"}}
    \cup {<<15>>, <<95, 0>>, <<175, 0, 1>>, <<48>>, <<192, 1, 2, 3>>, <<31>>,
          <<15>> \o I2("LDI", 0, 65) \o I1("PRA", 0) \o Exit}

\* LDI R0,0 ; LDI R1,1 ; SUB R0,R1 and then R0 used as an address, and a
\* stack pointer moved past either end of the memory.
AddressPrograms ==
    {I2("LDI", 0, 0) \o I2("LDI", 1, 1) \o I2("SUB", 0, 1) \o use :
        use \in {I2("LD", 2, 0), I2("ST", 0, 1), I1("JMP", 0)}}
    \cup {I1("POP", 7) \o I1("PUSH", 0) \o I1("PUSH", 0),
          Pops(13),
          I2("LDI", 0, 255) \o I2("LD", 1, 0) \o I2("ST", 0, 1) \o Exit}

\* LDI R0,0xf8+v ; LDI R1,H ; ST R0,R1 ; LDI R5,2^v ; NOP ; Exit ;
\* H: LDI R5,im ; LDI R6,is ; NOP ; NOP ; IRET.  The handler of line v raises
\* lines of its own while it runs.
NestPrograms ==
    {I2("LDI", 0, 248 + v) \o I2("LDI", 1, 18) \o I2("ST", 0, 1)
       \o I2("LDI", 5, 2 ^ v) \o I0("NOP") \o Exit
       \o I2("LDI", 5, im) \o I2("LDI", 6, is) \o I0("NOP") \o I0("NOP") \o I0("IRET") :
        v \in {0, 1}, im \in {3}, is \in {1, 3}}

\* LDI R0,0xf8+v ; LDI R1,H ; ST R0,R1 ; LDI R6,2^v ; LDI R5,2^v ; NOP ; Exit ;
\* H: LDI R0,66 ; PRA R0 ; IRET.  A line above the timer's and the keyboard's,
\* and the last line, whose vector is the cell at 0xff.
VectorPrograms ==
    {I2("LDI", 0, 248 + v) \o I2("LDI", 1, 21) \o I2("ST", 0, 1)
       \o I2("LDI", 6, 2 ^ v) \o I2("LDI", 5, 2 ^ v) \o I0("NOP") \o Exit
       \o I2("LDI", 0, 66) \o I1("PRA", 0) \o I0("IRET") :
        v \in {3, 7}}

BytePrograms ==
    AluPrograms \cup CmpPrograms \cup PrintPrograms \cup JumpPrograms
    \cup StackPrograms \cup CallPrograms \cup IntPrograms \cup SinglePrograms
    \cup AddressPrograms \cup NestPrograms \cup VectorPrograms

\* n copies of a line.
Repeat(line, n) == [i \in 1..n |-> line]

\* Program files as text: comments, blank lines and surrounding spaces; lines
\* that are no base-2 literal ("xyz", "12", "2"); literals int(line, 2) reads
\* that are not eight binary digits ("111111111", "100000000", "0b101",
\* "1_0", "-1", "+1", "1"); lines with the no-break space, U+0085, the em
\* space and fullwidth and Arabic-Indic digits; and files of 256, 257 and 258
\* data lines.
TextPrograms ==
    {<< <<35, 32, 104, 101, 97, 100, 10>>, <<10>>,
        <<32, 32, 48, 48, 48, 48, 48, 48, 48, 49, 32, 32, 35, 32, 49, 10>>,
        <<9, 10>>, <<48, 48, 48, 48, 48, 48, 49, 48>> >>,
     << Bin08Text(1) \o <<10>>, <<120, 121, 122, 10>>, Bin08Text(2) \o <<10>> >>,
     << Bin08Text(1) \o <<10>>, Bin08Text(2) \o <<10>>, <<49, 50, 10>> >>,
     << <<50, 10>> >>,
     << <<49, 49, 49, 49, 49, 49, 49, 49, 49, 10>> >>,
     << Bin08Text(1) \o <<10>>, <<49, 48, 48, 48, 48, 48, 48, 48, 48, 10>> >>,
     << <<48, 98, 49, 48, 49, 10>> >>,
     << <<49, 95, 48, 10>> >>,
     << <<45, 49, 10>> >>,
     << <<43, 49, 10>> >>,
     << <<49, 10>> >>,
     << <<160>> \o Bin08Text(1) \o <<133, 10>>, <<8195, 10>>, <<65297, 1632, 10>> >>,
     << <<48, 98, 65297, 10>>, <<65296, 98, 49, 10>>, <<49, 160, 49, 10>> >>,
     Repeat(Bin08Text(48) \o <<10>>, RamSize),
     << <<35, 10>> >> \o Repeat(Bin08Text(48) \o <<10>>, RamSize) \o << <<10>> >>,
     Repeat(Bin08Text(48) \o <<10>>, RamSize + 1),
     Repeat(Bin08Text(48) \o <<10>>, RamSize + 2)}

Programs == {ProgramText(b) : b \in BytePrograms} \cup TextPrograms

\* ------------------------------------------------------------------ bounds

MaxTimerFires == 1

MaxKeys == 1

MaxText == 12

MaxPrint == 120

MaxAbs == 70000

\* The characters the keyboard delivers: ESC and a letter.
Keys == {27, 97}

Bounded(m) ==
    /\ Len(m.next_room) <= MaxText
    /\ Len(m.stdout) <= MaxPrint
    /\ \A i \in 0..(NumRegs - 1) : m.reg[i].val >= -MaxAbs /\ m.reg[i].val <= MaxAbs

\* ---------------------------------------------------------------- actions

\* CPU.__init__
Init ==
    /\ ram = New.ram
    /\ reg = New.reg
    /\ pc = New.pc
    /\ fl = New.fl
    /\ heap_height = New.heap_height
    /\ interrupts = New.interrupts
    /\ next_room = New.next_room
    /\ stdout = New.stdout
    /\ error = New.error
    /\ stage = "new"
    /\ fires = 0
    /\ keys = 0
    /\ hist = NoHist

\* cpu.load() on one of the program texts.
Load ==
    /\ stage = "new"
    /\ \E text \in Programs :
         LET m == load(Cur, text, 1) IN
         /\ Becomes(m)
         /\ stage' = IF Ok(m) THEN "poll" ELSE "fault"
         /\ hist' = [AfterOther(hist, "load", Cur) EXCEPT !.text = text]
    /\ UNCHANGED <<fires, keys>>

\* The top of a loop iteration: the interrupt poll.
Poll ==
    /\ stage = "poll"
    /\ \E timer \in BOOLEAN, key \in Keys \cup {NoKey} :
         /\ timer => interrupts /\ fires < MaxTimerFires
         /\ key # NoKey => interrupts /\ keys < MaxKeys
         /\ LET m == PollInterrupts(Cur, timer, key) IN
            /\ Becomes(m)
            /\ stage' = IF Ok(m) THEN "fetch" ELSE "fault"
            /\ hist' = AfterPoll(hist, Cur, Sources(Cur, timer, key), m, timer, key)
         /\ fires' = IF timer THEN fires + 1 ELSE fires
         /\ keys' = IF key # NoKey THEN keys + 1 ELSE keys

\* The cell at pc is a Python int: run() returns next_room.
Halt ==
    /\ stage = "fetch"
    /\ Halts(Cur)
    /\ stage' = "halted"
    /\ hist' = AfterOther(hist, "halt", Cur)
    /\ UNCHANGED <<ram, reg, pc, fl, heap_height, interrupts, next_room, stdout,
                   error, fires, keys>>

\* An exception before a handler is called.
DecodeFault ==
    /\ stage = "fetch"
    /\ DecodeError(Cur) # "none"
    /\ Becomes(IF PcError(Cur) # "none" THEN Raise(Cur, PcError(Cur))
               ELSE Raise(Fetch(Cur), DecodeError(Cur)))
    /\ stage' = "fault"
    /\ hist' = AfterOther(hist, "fault", Cur)
    /\ UNCHANGED <<fires, keys>>

\* The error handlers that tell the outcomes of handler name apart: PRA is
\* the one handler that prints a character of the program's choosing.
ErrorsFor(name) == IF name = "PRA" THEN StdoutErrors ELSE {"strict"}

\* The handler of the decoded instruction is called, under either error
\* handler of the standard output.
Dispatch ==
    /\ stage = "fetch"
    /\ Decodes(Cur)
    /\ Known(Cur)
    /\ \E errors \in ErrorsFor(HandlerName(Cur)) :
         LET r == Dispatched([Cur EXCEPT !.stdout_errors = errors]) IN
         /\ Bounded(r)
         /\ Becomes(r)
         /\ stage' = IF Ok(r) THEN "poll" ELSE "fault"
         /\ hist' = AfterDispatch(hist, HandlerName(Cur), Cur, Fetch(Cur), r)
    /\ UNCHANGED <<fires, keys>>

\* No handler: the message is printed and the loop continues.
Unknown ==
    /\ stage = "fetch"
    /\ Decodes(Cur)
    /\ ~Known(Cur)
    /\ LET r == Skipped(Cur) IN
       /\ Bounded(r)
       /\ Becomes(r)
       /\ stage' = "poll"
       /\ hist' = AfterOther(hist, "unknown", Cur)
    /\ UNCHANGED <<fires, keys>>

\* cpu.trace() called by the owner of the object: before load(), between
\* load() and run(), or after run() has ended, and while the output is
\* within the bound.  run() itself never calls it.
Trace ==
    /\ \/ stage \in {"new", "halted", "fault"}
       \/ stage = "poll" /\ hist.step.kind \in {"load", "trace"}
    /\ Len(stdout) <= MaxPrint
    /\ Becomes(trace(Cur))
    /\ hist' = AfterOther(hist, "trace", Cur)
    /\ UNCHANGED <<stage, fires, keys>>

Next == Load \/ Poll \/ Halt \/ DecodeFault \/ Dispatch \/ Unknown \/ Trace

Spec == Init /\ [][Next]_vars
\* ------------------------------------------------------------- properties

\* The object before the latest step.
Before == hist.step.before

\* The latest step called handler name.
Called(name) == hist.step.kind = "dispatch" /\ hist.step.name = name

\* The operands of the latest instruction name registers.
NamesA == RegIndexError(first(Fetch(Before))) = "none"

NamesB == RegIndexError(second(Fetch(Before))) = "none"

OperandA == RegIndex(first(Fetch(Before)))

OperandB == RegIndex(second(Fetch(Before)))

\* A cell that holds an 8-bit value.
EightBit(c) == IsByte(c) /\ c.val \in 0..255

\* The cell at the program counter of m is a Raw cell.
AtRaw(m) ==
    IsRaw(m.pc) /\ InList(m.pc.val, RamSize) /\ IsRaw(m.ram[Norm(m.pc.val, RamSize)])

\* The program that was loaded is bytes.
Loaded(bytes) ==
    /\ hist.step.kind # "none"
    /\ heap_height = Len(bytes)
    /\ \A k \in 1..Len(bytes) : ram[k - 1] = Byte(bytes[k])

\* C1: run() halts exactly when the cell at the program counter is a Raw
\* cell.  Every step taken from the fetch is a halt if and only if that cell
\* is Raw, so a Raw cell is never decoded or dispatched; the run is halted
\* only by such a step (a trace() called afterwards is no step of the run);
\* and the halt changes nothing, so the accumulator run() returns is the one
\* accumulated so far.
C1_HaltsExactlyAtRaw ==
    /\ hist.step.kind \in {"halt", "fault", "dispatch", "unknown"}
         => (hist.step.kind = "halt" <=> AtRaw(Before))
    /\ hist.step.kind # "trace" => (stage = "halted" <=> hist.step.kind = "halt")
    /\ hist.step.kind = "halt" => Cur = Before

\* The run has halted at a return address that a CALL wrote, with output
\* accumulated or not.
C1_Witness ==
    /\ stage = "halted"
    /\ IsRaw(ram[Norm(pc.val, RamSize)])
    /\ ram[Norm(pc.val, RamSize)].val > 0
    /\ hist.calls # <<>>

\* C2: PRN never changes the Output Accumulator: after a PRN that completed,
\* next_room is what it was before.
C2_PrnLeavesAccumulator ==
    (Called("PRN") /\ error = "none") => next_room = Before.next_room

\* C3: PRA appends exactly the character chr(value of register A) to the
\* Output Accumulator, for every 8-bit value including 0; the program
\* LDI R0,5 ; PRA R0 returns chr(5).
C3_PraAppendsChr ==
    /\ (Called("PRA") /\ NamesA /\ EightBit(Before.reg[OperandA]))
         => /\ error = "none"
            /\ next_room = Before.next_room \o <<Before.reg[OperandA].val>>
    /\ (stage = "halted" /\ Loaded(I2("LDI", 0, 5) \o I1("PRA", 0)))
         => next_room = <<5>>

\* PRA of a register that holds 0 has appended chr(0) to a non-empty
\* accumulator.
C3_Witness ==
    /\ Called("PRA")
    /\ NamesA
    /\ Before.reg[OperandA] = Byte(0)
    /\ Before.next_room # <<>>
    /\ next_room = Before.next_room \o <<0>>

\* C4: for 8-bit values in registers A and B, the value ADD, SUB, MUL, AND,
\* OR, XOR, SHL and SHR write back to register A is in 0..255.
C4_AluResultEightBit ==
    (/\ hist.step.kind = "dispatch"
     /\ hist.step.name \in {"ADD", "SUB", "MUL", "AND", "OR", "XOR", "SHL", "SHR"}
     /\ NamesA /\ NamesB
     /\ EightBit(Before.reg[OperandA]) /\ EightBit(Before.reg[OperandB])
     /\ error = "none")
      => EightBit(reg[OperandA])

\* C5: after a CMP of 8-bit values, whatever the flags were, fl is exactly
\* Less (4) if A < B, Greater (2) if A > B and Equal (1) if A = B.
C5_CmpSetsOneFlag ==
    (Called("CMP") /\ NamesA /\ NamesB
     /\ EightBit(Before.reg[OperandA]) /\ EightBit(Before.reg[OperandB])
     /\ IsRaw(Before.fl))
      => /\ error = "none"
         /\ fl = Raw(IF Before.reg[OperandA].val < Before.reg[OperandB].val THEN 4
                     ELSE IF Before.reg[OperandA].val > Before.reg[OperandB].val THEN 2
                     ELSE 1)

\* A second CMP found Less set by the first and left Greater alone.
C5_Witness ==
    /\ Called("CMP")
    /\ Before.fl = Raw(4)
    /\ fl = Raw(2)

\* C6: PUSH r immediately followed by POP r, from a stack pointer in 0..255,
\* leaves the stack pointer and register r as they were before the PUSH.
\* (No keystroke was stored and no interrupt serviced between the two.)
C6_PushPopRestores ==
    (/\ Called("POP") /\ error = "none"
     /\ hist.prior.name = "PUSH"
     /\ hist.prior.a = hist.last.a
     /\ IsRaw(hist.prior.sp) /\ hist.prior.sp.val \in 0..255)
      => /\ reg[SP] = hist.prior.sp
         /\ reg[hist.prior.a] = hist.prior.val

\* C7: when the stack pointer at a RET is the one its CALL left (the callee
\* kept the stack balanced), the RET sets the program counter to p + 2, p the
\* address of the CALL's opcode, and the stack pointer to its value before
\* the CALL.
C7_RetResumesAfterCall ==
    (/\ Called("RET") /\ error = "none"
     /\ hist.ret # NoCall
     /\ IsRaw(hist.ret.sp)
     /\ Before.reg[SP] = Raw(hist.ret.sp.val - 1))
      => /\ pc = Raw(hist.ret.p + 2)
         /\ reg[SP] = hist.ret.sp

\* C8: a poll made while the Interrupt Mask register is 0 services nothing,
\* whatever IS holds and whether or not the timer fired or a key was read:
\* the stack pointer, the program counter and interrupts-enabled are as
\* before, and no cell but the last-key cell has changed.
C8_NoServiceWhileMasked ==
    (hist.step.kind = "poll" /\ Before.reg[IM].val = 0)
      => /\ reg[SP] = Before.reg[SP]
         /\ pc = Before.pc
         /\ interrupts = Before.interrupts
         /\ \A a \in 0..(RamSize - 1) : a # KEY => ram[a] = Before.ram[a]

\* A poll with the mask 0 in which the timer fired and a key was read, so
\* that IS is not 0 when the lines are examined.
C8_Witness ==
    /\ hist.step.kind = "poll"
    /\ Before.reg[IM] = Byte(0)
    /\ Before.interrupts
    /\ hist.step.timer
    /\ hist.step.key # NoKey
    /\ reg[IS] = Byte(2)
    /\ stage = "fetch"

\* x with bit i cleared.
ClearBit(x, i) == x - BitAnd(x, 2 ^ i)

\* C9: when the stack pointer at an IRET is the one the service of the
\* interrupt left (the handler kept the stack balanced), the IRET restores
\* registers 0..5, the flags, the program counter and the stack pointer to
\* what they were when the line was chosen, IS to what it was then with the
\* bit of the serviced line cleared, and sets interrupts-enabled.
C9_IretRestores ==
    (/\ Called("IRET") /\ error = "none"
     /\ hist.iret # NoFrame
     /\ IsRaw(hist.iret.reg[SP])
     /\ Before.reg[SP] = Raw(hist.iret.reg[SP].val - 9)
     /\ IsByte(hist.iret.reg[IS]))
      => /\ \A r \in 0..4 : reg[r] = hist.iret.reg[r]
         /\ reg[IM] = hist.iret.reg[IM]
         /\ reg[IS] = Byte(ClearBit(hist.iret.reg[IS].val, hist.iret.line))
         /\ reg[SP] = hist.iret.reg[SP]
         /\ fl = hist.iret.fl
         /\ pc = hist.iret.pc
         /\ interrupts

\* C10: a lookup miss aborts the run: after a step that found no handler for
\* the decoded instruction the run has ended with an error.
C10_LookupMissAborts ==
    hist.step.kind = "unknown" => (stage = "fault" /\ error # "none")

\* The handlers that move the stack pointer.
StackNames == {"PUSH", "POP", "CALL", "RET", "INT", "IRET"}

\* A cell whose value is an address of Memory.
InMemory(c) == c.val \in 0..(RamSize - 1)

\* C11: PUSH, POP, CALL, RET, INT and IRET never wrap the stack: one that
\* completes, from a stack pointer in 0..255, leaves the stack pointer in
\* 0..255 (a move outside ends the run with an error instead).
C11_StackNeverWraps ==
    (/\ hist.step.kind = "dispatch"
     /\ hist.step.name \in StackNames
     /\ error = "none"
     /\ IsRaw(Before.reg[SP]) /\ InMemory(Before.reg[SP]))
      => (IsRaw(reg[SP]) /\ InMemory(reg[SP]))

\* C12: no address outside 0..255 is wrapped onto a cell: a step that read
\* the cell at the program counter, an LD or ST that completed, and a stack
\* operation that completed, each used an address in 0..255.
C12_NoAddressWraps ==
    /\ hist.step.kind \in {"halt", "dispatch", "unknown"} => InMemory(Before.pc)
    /\ (Called("LD") /\ error = "none") => InMemory(Before.reg[OperandB])
    /\ (Called("ST") /\ error = "none") => InMemory(Before.reg[OperandA])
    /\ (hist.step.kind = "dispatch" /\ hist.step.name \in {"PUSH", "CALL"} /\ error = "none")
         => InMemory(Raw(Before.reg[SP].val - 1))
    /\ (hist.step.kind = "dispatch" /\ hist.step.name \in {"POP", "RET"} /\ error = "none")
         => InMemory(Before.reg[SP])

\* C13: when the keyboard poll reads ESC, run() ends in that iteration, with
\* no further instruction decoded, and returns the accumulator as it was.
C13_EscEndsRun ==
    (hist.step.kind = "poll" /\ hist.step.key = 27)
      => (stage = "halted" /\ next_room = Before.next_room)

\* A line after comment and whitespace stripping, and the data lines of the
\* text given to the latest load, in input order.
Stripped(line) == Strip(BeforeHash(line))

IsData(line) == Stripped(line) # <<>>

DataLines == SelectSeq(hist.text, IsData)

\* Binary digits only, and their value.
PlainBinary(t) == t # <<>> /\ \A i \in 1..Len(t) : t[i] \in {48, 49}

RECURSIVE BinValue(_)
BinValue(t) == IF t = <<>> THEN 0 ELSE 2 * BinValue(SubSeq(t, 1, Len(t) - 1)) + (t[Len(t)] - 48)

\* A binary literal that fits in 8 bits.
EightBitLiteral(t) == PlainBinary(t) /\ BinValue(t) <= 255

\* A line that is certainly no 8-bit binary literal: binary digits of a
\* value above 255, or a character that no base-2 literal contains.
NotEightBitLiteral(t) ==
    \/ PlainBinary(t) /\ BinValue(t) > 255
    \/ \E i \in 1..Len(t) : t[i] \notin {48, 49, 43, 45, 95, 98, 66}

Loading == hist.step.kind = "load"

\* C14: load fails for every data line that is no binary literal fitting in
\* 8 bits, a literal of more than 8 significant bits included.
C14_InvalidLineFails ==
    (Loading /\ \E k \in 1..Len(DataLines) : NotEightBitLiteral(Stripped(DataLines[k])))
      => error # "none"

\* C15: load fails when the text has more than 256 data lines (with
\* IndexError when the first 256 are valid), and succeeds, filling the
\* memory, for exactly 256 valid data lines.
C15_TooLargeFails ==
    Loading =>
      /\ Len(DataLines) > RamSize => error # "none"
      /\ (Len(DataLines) > RamSize
          /\ \A k \in 1..RamSize : EightBitLiteral(Stripped(DataLines[k])))
           => (error = "IndexError" /\ stage = "fault")
      /\ (Len(DataLines) = RamSize
          /\ \A k \in 1..RamSize : EightBitLiteral(Stripped(DataLines[k])))
           => (error = "none" /\ heap_height = RamSize /\ stage = "poll")

\* A load of 257 valid data lines has failed.
C15_Witness ==
    /\ Loading
    /\ Len(DataLines) = RamSize + 1
    /\ error = "IndexError"
    /\ stage = "fault"

\* C16: a load that fails leaves no partial load: every cell and the load
\* cursor are as they were before load was called.
C16_FailedLoadLeavesNothing ==
    (Loading /\ error # "none") => (ram = Before.ram /\ heap_height = Before.heap_height)

\* C17: a load of n <= 256 data lines, each a binary literal fitting in 8
\* bits, succeeds; cell k holds the Byte of the k-th data line, in input
\* order, and every cell from n on is as constructed.
C17_LoadStoresInOrder ==
    (Loading /\ Len(DataLines) <= RamSize
     /\ \A k \in 1..Len(DataLines) : EightBitLiteral(Stripped(DataLines[k])))
      => /\ error = "none"
         /\ heap_height = Len(DataLines)
         /\ \A k \in 1..Len(DataLines) : ram[k - 1] = Byte(BinValue(Stripped(DataLines[k])))
         /\ \A a \in Len(DataLines)..(RamSize - 1) : ram[a] = New.ram[a]

\* A load that skipped comment and blank lines and stored two data lines.
C17_Witness ==
    /\ Loading
    /\ error = "none"
    /\ Len(DataLines) = 2
    /\ Len(hist.text) > 2
    /\ ram[1] = Byte(2)

\* C18: in every state of a run each of the 8 registers holds a value in
\* 0..255, and no register other than the stack pointer, which the
\* constructor sets to an integer, holds a Raw value.
C18_RegistersCanonical ==
    \A r \in 0..(NumRegs - 1) :
        /\ reg[r].val \in 0..255
        /\ r # SP => IsByte(reg[r])

\* The object as the timer and keyboard checks of the latest poll left it,
\* and the line that poll serviced (8: none).
Source == Sources(Before, hist.step.timer, hist.step.key)

ServicedLine ==
    IF hist.step.kind = "poll" /\ Before.interrupts /\ error = "none"
    THEN ActiveLine(Source) ELSE 8

\* C19: a poll that services line i clears exactly bit i of IS: the IS the
\* service saves on the stack (the last register pushed, which IRET gives
\* back; the live register is zeroed with the others) is the IS the line
\* was chosen from with bit i cleared, and bit i of the live IS is 0.
C19_ServiceClearsOneBit ==
    (ServicedLine <= 7 /\ IsRaw(reg[SP]) /\ InMemory(reg[SP]))
      => /\ BitAnd(reg[IS].val, 2 ^ ServicedLine) = 0
         /\ ram[reg[SP].val] = Byte(ClearBit(Source.reg[IS].val, ServicedLine))

\* C20: interrupts never nest.  While an interrupt is in service (from the
\* poll that serviced it to the next IRET) interrupts-enabled is false and
\* at most one interrupt is in service; a poll made while interrupts-enabled
\* is false reads no timer and no key and changes nothing, so it services no
\* second interrupt.
C20_InterruptsNeverNest ==
    /\ hist.frames # <<>> => ~interrupts
    /\ Len(hist.frames) <= 1
    /\ (hist.step.kind = "poll" /\ ~Before.interrupts)
         => /\ ~hist.step.timer
            /\ hist.step.key = NoKey
            /\ ram = Before.ram /\ reg = Before.reg
            /\ pc = Before.pc /\ fl = Before.fl
            /\ ~interrupts
            /\ next_room = Before.next_room /\ stdout = Before.stdout

\* A poll inside a handler that has raised an enabled line of its own.
C20_Witness ==
    /\ hist.step.kind = "poll"
    /\ hist.frames # <<>>
    /\ ~Before.interrupts
    /\ IsByte(Before.reg[IM]) /\ IsByte(Before.reg[IS])
    /\ Mask(Before) # 0
    /\ stage = "fetch"

\* The vector-table slot of line i.
Vector(i) == 248 + i

\* C21: a poll that services line i sets the program counter to the handler
\* address that the vector-table slot of the line held before the poll, for
\* every line 0..7 (the stack being clear of the vector table).
C21_ServiceJumpsToVector ==
    (/\ ServicedLine <= 7
     /\ IsByte(Before.ram[Vector(ServicedLine)])
     /\ IsRaw(Before.reg[SP]) /\ Before.reg[SP].val \in 9..248)
      => pc = Raw(Before.ram[Vector(ServicedLine)].val)

\* A poll made with interrupts enabled and a canonical status register, and
\* the status the sources should leave: the old bits, bit 0 for a timer
\* fire and bit 1 for a keystroke.
Polled == hist.step.kind = "poll" /\ Before.interrupts /\ IsByte(Before.reg[IS])

PendingAfterSources ==
    BitOr(BitOr(Before.reg[IS].val, IF hist.step.timer THEN 1 ELSE 0),
          IF hist.step.key # NoKey THEN 2 ELSE 0)

\* C22: the sources only set their own pending bit: when the lines are
\* examined IS is the old IS with bit 0 set by a timer fire and bit 1 set by
\* a keystroke, and a poll that services nothing leaves IS so.
C22_SourcesKeepPending ==
    /\ Polled => Source.reg[IS].val = PendingAfterSources
    /\ (Polled /\ error = "none" /\ ServicedLine = 8) => reg[IS].val = PendingAfterSources

\* The condition of a jump, over the flags before the step: bit 0 is Equal,
\* bit 1 Greater, bit 2 Less.
FlagSet(k) == (Before.fl.val \div k) % 2 = 1

Holds(name) ==
    CASE name = "JMP" -> TRUE
      [] name = "JEQ" -> FlagSet(1)
      [] name = "JNE" -> ~FlagSet(1)
      [] name = "JGT" -> FlagSet(2)
      [] name = "JGE" -> FlagSet(2) \/ FlagSet(1)
      [] name = "JLT" -> FlagSet(4)
      [] name = "JLE" -> FlagSet(4) \/ FlagSet(1)

\* C23: a jump whose opcode is at address p and that completes leaves the
\* program counter at the address in register A when its condition holds
\* (always, for JMP) and at p + 2 otherwise.
C23_JumpsFollowFlags ==
    \A name \in {"JMP", "JEQ", "JNE", "JGT", "JGE", "JLT", "JLE"} :
        (Called(name) /\ error = "none")
          => pc = IF Holds(name) THEN Raw(Before.reg[OperandA].val)
                  ELSE Raw(Before.pc.val + 2)

\* JGE was taken on the Equal flag alone, at the opcode at address 12.
C23_Witness ==
    /\ Called("JGE") /\ error = "none"
    /\ Before.fl = Raw(1) /\ Before.pc = Raw(12) /\ pc = Raw(16)

\* C24: NOT A on a register that holds an 8-bit value completes without
\* error, leaves 255 - a in register A and goes on to the next instruction.
C24_NotComplements ==
    (Called("NOT") /\ NamesA /\ EightBit(Before.reg[OperandA]))
      => /\ error = "none"
         /\ reg[OperandA] = Byte(255 - Before.reg[OperandA].val)
         /\ pc = Raw(Before.pc.val + 2)

\* The handlers that store into the memory.
Storing == {"ST", "PUSH", "CALL", "INT"}

\* C25: an iteration that dispatches a handler other than ST, PUSH, CALL and
\* INT, or that finds no handler, leaves every memory cell as it was; and a
\* LD that completes loads the cell as it stood before the instruction was
\* fetched, so that what a ST left at any address is read back.
C25_FetchLeavesMemory ==
    /\ (\/ hist.step.kind = "unknown"
        \/ hist.step.kind = "dispatch" /\ hist.step.name \notin Storing)
         => ram = Before.ram
    /\ (Called("LD") /\ error = "none")
         => reg[OperandA] = Before.ram[Before.reg[OperandB].val]

\* C26: one timer fire causes one service of line 0: the poll that follows
\* the IRET of a line-0 handler does not service line 0 again unless the
\* timer fires in that poll, so the interrupted program gets its next
\* instruction.
C26_OneFireOneService ==
    [][(/\ Called("IRET") /\ error = "none" /\ hist.iret.line = 0
        /\ hist'.step.kind = "poll" /\ ~hist'.step.timer)
         => ServicedLine' # 0]_vars

\* The handlers that set the program counter themselves.
ControlFlow ==
    {"JMP", "JEQ", "JNE", "JGT", "JGE", "JLT", "JLE", "CALL", "RET", "INT", "IRET"}

\* C27: an iteration that completes without dispatching a control-flow
\* handler, bytes with no handler included, leaves the program counter
\* above the address of the byte it decoded.
C27_PcIncreases ==
    (/\ error = "none"
     /\ \/ hist.step.kind = "unknown"
        \/ hist.step.kind = "dispatch" /\ hist.step.name \notin ControlFlow)
      => pc.val > Before.pc.val

=============================================================================
